---- MODULE Spec2Model ----
(***************************************************************************)
(* fillPartialTree: completion of a partially known provider file tree.    *)
(*                                                                         *)
(* The driver (fillPartialTree) clones the caller's tree, submits one      *)
(* crawl task (recursivelyFetch) per poor folder to a p-queue of           *)
(* concurrency 6, awaits queue.onIdle(), and projects the checked files    *)
(* through getAbsPath / getRelPath.                                        *)
(*                                                                         *)
(* A PartialTreeId (a request path or a page cursor) is the triple         *)
(* <<name, k, page>>: the first page of folder "docs" is <<"docs", 0, 1>>, *)
(* which is also the folder's id; null is <<>>.  A node of a tree is       *)
(* referred to by its position in the array, which never changes since the *)
(* array is only appended to: that is the object identity the code's       *)
(* closures hold.                                                          *)
(***************************************************************************)
EXTENDS Integers, Sequences, FiniteSets, TLC

\* ------------------------------------------------------------------ bounds

\* Sibling poor folders of the wide input tree (more than the concurrency).
NumWide == 7
\* Pages of the listing of the remote folder "docs".
MaxPages == 3
\* provider.list calls that may reject within one run.
MaxRejects == 1

\* ------------------------------------------------------------- JS values

NULL == <<>>

Undefined == [type |-> "undefined"]

\* while (currentPath), item.nextPagePath as a condition: JS truthiness of
\* a PartialTreeId (null is falsy, a non-empty request path is truthy).
Truthy(v) == v # NULL

Status == {"checked", "unchecked", "partial"}

\* A name is <<string, k>>; its request path is the cursor of its first page.
Id(name) == <<name[1], name[2], 1>>

N(s) == <<s, 0>>

W(i) == <<"w", i>>

Range(s) == {s[i] : i \in DOMAIN s}

\* Mutant of Reversed: the path returned as collected, file first.
Reversed_Missing(s) == s

\* Array.prototype.toReversed
Reversed(s) == [i \in 1..Len(s) |-> s[Len(s) + 1 - i]]

\* Array.prototype.findIndex over a boolean image of the array: the 0-based
\* index of the first TRUE, -1 when there is none.
FindIndex(hits) ==
  IF \E i \in DOMAIN hits : hits[i]
  THEN (CHOOSE i \in DOMAIN hits : hits[i] /\ \A j \in 1..(i - 1) : ~hits[j]) - 1
  ELSE -1

\* Array.prototype.slice(start) with a 0-based start; a negative start
\* counts from the end of the array.
Slice(s, start) ==
  LET from == IF start < 0
              THEN (IF Len(s) + start < 0 THEN 0 ELSE Len(s) + start)
              ELSE (IF start > Len(s) THEN Len(s) ELSE start)
  IN  SubSeq(s, from + 1, Len(s))

\* Array.prototype.find by id: the first node with that id, or undefined.
Find(tree, id) ==
  IF \E i \in DOMAIN tree : tree[i].id = id
  THEN tree[CHOOSE i \in DOMAIN tree :
              tree[i].id = id /\ \A j \in 1..(i - 1) : tree[j].id # id]
  ELSE Undefined

\* [...].join('/') of an array of node objects: every object stringifies to
\* "[object Object]", so only the number of segments survives.
Join(path) == [i \in 1..Len(path) |-> "[object Object]"]

\* ----------------------------------------------------------------- nodes

Item(name, isFolder) == [requestPath |-> Id(name), isFolder |-> isFolder]

RootNode == [type |-> "root", id |-> NULL, cached |-> TRUE, nextPagePath |-> NULL]

FolderNode(name, parentId, status, cached, nextPagePath) ==
  [type |-> "folder", id |-> Id(name), cached |-> cached,
   nextPagePath |-> nextPagePath, status |-> status, parentId |-> parentId,
   data |-> Item(name, TRUE)]

FileNode(name, parentId, status) ==
  [type |-> "file", id |-> Id(name), status |-> status, parentId |-> parentId,
   data |-> Item(name, FALSE)]

\* ---------------------------------------------------------- path resolver

RECURSIVE AbsWalk(_, _, _)
\* The while (true) loop of getAbsPath; parent.type of undefined throws a
\* TypeError.
AbsWalk(partialTree, parent, path) ==
  IF parent = Undefined THEN [threw |-> TRUE, path |-> <<>>]
  ELSE IF parent.type = "root" THEN [threw |-> FALSE, path |-> Reversed(path)]
  ELSE AbsWalk(partialTree, Find(partialTree, parent.parentId), Append(path, parent))

getAbsPath(partialTree, file) == AbsWalk(partialTree, file, <<>>)

\* Mutant of firstCheckedFolderIndex: the checked folder nearest to the file
\* (findLastIndex).
firstCheckedFolderIndex_Last(absPath) ==
  IF \E i \in 1..Len(absPath) :
       absPath[i].type = "folder" /\ absPath[i].status = "checked"
  THEN (CHOOSE i \in 1..Len(absPath) :
          /\ absPath[i].type = "folder" /\ absPath[i].status = "checked"
          /\ \A j \in (i + 1)..Len(absPath) :
                ~(absPath[j].type = "folder" /\ absPath[j].status = "checked")) - 1
  ELSE -1

firstCheckedFolderIndex(absPath) ==
  FindIndex([i \in 1..Len(absPath) |->
               absPath[i].type = "folder" /\ absPath[i].status = "checked"])

getRelPath(absPath) == Slice(absPath, firstCheckedFolderIndex(absPath))

\* -------------------------------------------------------- remote provider

\* The remote hierarchy the provider lists:
\*   docs: MaxPages pages; page 1 = a.txt, page 2 = img/, c.txt, raw/,
\*         last page = b.txt, the pages between are empty
\*   img:  one page, a.png and thumbs/      raw: one page, b.raw
\*   thumbs, w(i): one empty page
NumPages(name) == IF name = N("docs") THEN MaxPages ELSE 1

PageItems(name, page) ==
  IF name = N("docs") THEN
       IF page = 1 THEN <<Item(N("a.txt"), FALSE)>>
       ELSE IF page = 2
            THEN <<Item(N("img"), TRUE), Item(N("c.txt"), FALSE), Item(N("raw"), TRUE)>>
       ELSE IF page = MaxPages THEN <<Item(N("b.txt"), FALSE)>>
       ELSE <<>>
  ELSE IF name = N("img") THEN <<Item(N("a.png"), FALSE), Item(N("thumbs"), TRUE)>>
  ELSE IF name = N("raw") THEN <<Item(N("b.raw"), FALSE)>>
  ELSE <<>>

\* A resolved provider.list(currentPath, {}).
list(currentPath) ==
  LET name == <<currentPath[1], currentPath[2]>>
      page == currentPath[3]
  IN  [items |-> PageItems(name, page),
       nextPagePath |-> IF page < NumPages(name)
                        THEN <<name[1], name[2], page + 1>> ELSE NULL]

\* ------------------------------------------------------------------ state

VARIABLES
  mem,        \* the heap: array reference -> contents of the array
  poorTree,   \* the reference held by fillPartialTree's poorTree
  snapshot,   \* the value of the caller's tree when fillPartialTree was called
  pc,         \* fillPartialTree: "idle" (not called), "awaitIdle", "returned", "threw"
  queue,      \* p-queue: the jobs not started yet, first in first out
  running,    \* p-queue: the started jobs (its pending count), by folder node
  idle,       \* the promise of queue.onIdle() is resolved
  calls,      \* per crawled folder, the cursors passed to provider.list
  rejects,    \* provider.list calls that rejected in this run
  added,      \* folder nodes passed to queue.add in this run
  submitted,  \* the arguments of the queue.add calls of this run, in order
  settled,    \* the jobs that ended in this run: folder node -> "returned" or "threw"
  uppyFiles,  \* the value fillPartialTree resolved with
  paths,      \* per output record, the absPath and relPath it was built from
  prev        \* the outcome of the previous call on the same tree

vars == <<mem, poorTree, snapshot, pc, queue, running, idle, calls, rejects,
          added, submitted, settled, uppyFiles, paths, prev>>

\* The caller's array (the partialTree argument).
partialTree == "arg"

\* Mutant of concurrency: one job more than the limit.
concurrency_OneMore == 6 + 1

\* new PQueue({ concurrency: 6 })
concurrency == 6

\* ---------------------------------------------------------- folder crawler

\* Mutant of StartPath: every crawl started at the folder's first page.
StartPath_AlwaysId(poorFolder) == poorFolder.id

\* let currentPath = poorFolder.cached ? poorFolder.nextPagePath : poorFolder.id
StartPath(poorFolder) ==
  IF poorFolder.cached THEN poorFolder.nextPagePath ELSE poorFolder.id

\* Mutant of NextPath: the cursor of the response dropped, so the loop ends
\* after the first page.
NextPath_Dropped(response) == NULL

\* currentPath = response.nextPagePath
NextPath(response) == response.nextPagePath

\* Mutant of AfterPage: the cursor stored in the folder page by page.
AfterPage_StoreCursor(tree, t, response) ==
  [tree EXCEPT ![t].cached = TRUE, ![t].nextPagePath = response.nextPagePath]

\* The working tree after lines 31-32 when another page follows: the loop
\* writes only its locals items and currentPath.
AfterPage(tree, t, response) == tree

\* Mutant of NewFolders: the new folder nodes marked as listed already.
NewFolders_Cached(poorFolder, items) ==
  LET newFolders == SelectSeq(items, LAMBDA i : i.isFolder = TRUE)
  IN  [k \in 1..Len(newFolders) |->
         [type |-> "folder", id |-> newFolders[k].requestPath, cached |-> TRUE,
          nextPagePath |-> NULL, status |-> "checked", parentId |-> poorFolder.id,
          data |-> newFolders[k]]]

\* Mutant of NewFolders: the new folder nodes given their own id as parent.
NewFolders_SelfParent(poorFolder, items) ==
  LET newFolders == SelectSeq(items, LAMBDA i : i.isFolder = TRUE)
  IN  [k \in 1..Len(newFolders) |->
         [type |-> "folder", id |-> newFolders[k].requestPath, cached |-> FALSE,
          nextPagePath |-> NULL, status |-> "checked",
          parentId |-> newFolders[k].requestPath, data |-> newFolders[k]]]

\* The nodes built from the accumulated items.
NewFolders(poorFolder, items) ==
  LET newFolders == SelectSeq(items, LAMBDA i : i.isFolder = TRUE)
  IN  [k \in 1..Len(newFolders) |->
         [type |-> "folder", id |-> newFolders[k].requestPath, cached |-> FALSE,
          nextPagePath |-> NULL, status |-> "checked", parentId |-> poorFolder.id,
          data |-> newFolders[k]]]

\* Mutant of NewFiles: the files attached to the parent of the crawled folder.
NewFiles_UnderGrandParent(poorFolder, items) ==
  LET newFiles == SelectSeq(items, LAMBDA i : i.isFolder = FALSE)
  IN  [k \in 1..Len(newFiles) |->
         [type |-> "file", id |-> newFiles[k].requestPath, status |-> "checked",
          parentId |-> poorFolder.parentId, data |-> newFiles[k]]]

NewFiles(poorFolder, items) ==
  LET newFiles == SelectSeq(items, LAMBDA i : i.isFolder = FALSE)
  IN  [k \in 1..Len(newFiles) |->
         [type |-> "file", id |-> newFiles[k].requestPath, status |-> "checked",
          parentId |-> poorFolder.id, data |-> newFiles[k]]]

\* poorFolder.cached = true; poorFolder.nextPagePath = null;
\* poorTree.push(...files, ...folders)
Commit(tree, t, items) ==
  [tree EXCEPT ![t].cached = TRUE, ![t].nextPagePath = NULL]
     \o NewFiles(tree[t], items) \o NewFolders(tree[t], items)

\* Mutant of Pushed: the job added for each pushed folder is given poorFolder
\* instead of folder, so it crawls the parent again.
Pushed_PoorFolder(tree, t, items) ==
  [k \in 1..Len(NewFolders(tree[t], items)) |-> t]

\* Mutant of Pushed: no job is added for the pushed folders.
Pushed_None(tree, t, items) == <<>>

\* The positions of the pushed folder nodes, in the order of folders.forEach.
Pushed(tree, t, items) ==
  [k \in 1..Len(NewFolders(tree[t], items)) |->
     Len(tree) + Len(NewFiles(tree[t], items)) + k]

\* ------------------------------------------------------- crawl scheduler
\* A scheduler value is [queue, running, calls]: what queue.add and the end
\* of a job change.

\* A job starts: recursivelyFetch runs up to its first await, which is the
\* provider.list call of the start path.  A start path of null (a cached
\* folder without nextPagePath) skips the loop: nothing is listed, lines
\* 58-60 write the values the folder already has and push nothing, and the
\* job returns.
StartJob(sch, tree, t) ==
  LET currentPath == StartPath(tree[t])
  IN  [sch EXCEPT
         !.running = [u \in DOMAIN sch.running \cup {t} |->
                        IF u = t
                        THEN [currentPath |-> currentPath, items |-> <<>>,
                              responses |-> 0,
                              st |-> IF Truthy(currentPath)
                                     THEN "awaiting" ELSE "returned"]
                        ELSE sch.running[u]],
         !.calls = [u \in DOMAIN sch.calls \cup {t} |->
                      IF u = t
                      THEN (IF Truthy(currentPath) THEN <<currentPath>> ELSE <<>>)
                      ELSE sch.calls[u]]]

\* Mutant of tryToStartAnother: a paused queue (autoStart: false), which
\* starts nothing.
tryToStartAnother_Paused(sch, tree) == sch

\* p-queue starts the head of its queue when fewer than concurrency jobs
\* are pending.
tryToStartAnother(sch, tree) ==
  IF sch.queue # <<>> /\ Cardinality(DOMAIN sch.running) < concurrency
  THEN StartJob([sch EXCEPT !.queue = Tail(sch.queue)], tree, Head(sch.queue))
  ELSE sch

\* queue.add(async () => await recursivelyFetch(queue, poorTree, folder, provider))
QueueAdd(sch, tree, t) ==
  tryToStartAnother([sch EXCEPT !.queue = Append(sch.queue, t)], tree)

RECURSIVE AddEach(_, _, _)
\* folders.forEach / poorFolders.forEach of queue.add
AddEach(sch, tree, ts) ==
  IF ts = <<>> THEN sch
  ELSE AddEach(QueueAdd(sch, tree, Head(ts)), tree, Tail(ts))

\* Mutant of IsIdle: onEmpty instead of onIdle, the jobs in flight not counted.
IsIdle_QueueEmpty(sch) == sch.queue = <<>>

\* queue.onIdle() resolves: nothing queued and nothing pending.
IsIdle(sch) == sch.queue = <<>> /\ DOMAIN sch.running = {}

Sch == [queue |-> queue, running |-> running, calls |-> calls]

\* ------------------------------------------------- tree completion driver

\* JSON.parse(JSON.stringify(partialTree)): the nodes hold only strings,
\* booleans, null and plain objects, which the round trip rebuilds field by
\* field into new objects of a new array.
JsonClone(tree) ==
  [i \in 1..Len(tree) |-> [f \in DOMAIN tree[i] |-> tree[i][f]]]

\* Mutant of CloneInto: poorTree = partialTree, the caller's own array.
CloneInto_Alias(ref) == ref

\* The array the poorTree variable refers to after line 75: a new one.
CloneInto(ref) == "copy"

\* Mutant of IsPoor: the pagination state left out of the filter.
IsPoor_AnyChecked(item) == item.type = "folder" /\ item.status = "checked"

\* Mutant of IsPoor: the status left out of the filter.
IsPoor_AnyStatus(item) ==
  /\ item.type = "folder"
  /\ (item.cached = FALSE \/ Truthy(item.nextPagePath))

\* The filter of lines 76-81.
IsPoor(item) ==
  /\ item.type = "folder"
  /\ item.status = "checked"
  /\ (item.cached = FALSE \/ Truthy(item.nextPagePath))

poorFolders(tree) ==
  SelectSeq([i \in 1..Len(tree) |-> i], LAMBDA i : IsPoor(tree[i]))

\* Mutant of AwaitOnIdle: queue.onIdle() called without await.
AwaitOnIdle_NotAwaited == TRUE

\* await queue.onIdle(): the driver goes on once the promise is resolved.
AwaitOnIdle == idle

\* Mutant of IsCheckedFile: every file that is not unchecked.
IsCheckedFile_NotUnchecked(item) == item.type = "file" /\ item.status # "unchecked"

\* The filter of line 92.
IsCheckedFile(item) == item.type = "file" /\ item.status = "checked"

checkedFiles(tree) == SelectSeq(tree, IsCheckedFile)

\* The callback of checkedFiles.map, with the paths it computed.
Resolve(tree, file) ==
  LET abs == getAbsPath(tree, file)
  IN  [file |-> file, threw |-> abs.threw, absPath |-> abs.path,
       relPath |-> IF abs.threw THEN <<>> ELSE getRelPath(abs.path)]

\* { ...file.data, absDirPath: absPath.join('/'), relDirPath: relPath.join('/') }
UppyFile(r) ==
  [requestPath |-> r.file.data.requestPath, isFolder |-> r.file.data.isFolder,
   absDirPath |-> Join(r.absPath), relDirPath |-> Join(r.relPath)]

NoPrev == [ran |-> FALSE, pc |-> "idle", uppyFiles |-> <<>>, rejects |-> 0]

\* fillPartialTree up to its await: clone, select the poor folders, add one
\* job per poor folder (the first `concurrency` of them start), call onIdle.
Call ==
  /\ pc = "idle"
  /\ LET ref == CloneInto(partialTree)
         tree == JsonClone(mem[partialTree])
         poor == poorFolders(tree)
         sch == AddEach([queue |-> <<>>, running |-> <<>>, calls |-> <<>>], tree, poor)
     IN  /\ mem' = [mem EXCEPT ![ref] = tree]
         /\ poorTree' = ref
         /\ snapshot' = mem[partialTree]
         /\ queue' = sch.queue
         /\ running' = sch.running
         /\ calls' = sch.calls
         /\ added' = Range(poor)
         /\ submitted' = poor
         /\ idle' = IsIdle(sch)
  /\ pc' = "awaitIdle"
  /\ UNCHANGED <<rejects, settled, uppyFiles, paths, prev>>

\* provider.list resolves for job t: lines 31-32, then either the next
\* provider.list call or lines 35-68 (commit, fan-out, return).
Respond(t) ==
  /\ t \in DOMAIN running
  /\ running[t].st = "awaiting"
  /\ LET response == list(running[t].currentPath)
         items == running[t].items \o response.items
         currentPath == NextPath(response)
         tree == mem[poorTree]
     IN  IF Truthy(currentPath)
         THEN /\ running' = [running EXCEPT ![t].currentPath = currentPath,
                                            ![t].items = items,
                                            ![t].responses = @ + 1]
              /\ calls' = [calls EXCEPT ![t] = Append(@, currentPath)]
              /\ mem' = [mem EXCEPT ![poorTree] = AfterPage(tree, t, response)]
              /\ UNCHANGED <<queue, added, submitted>>
         ELSE LET after == Commit(tree, t, items)
                  folders == Pushed(tree, t, items)
                  sch == AddEach([Sch EXCEPT !.running[t].st = "returned",
                                             !.running[t].items = items,
                                             !.running[t].currentPath = currentPath,
                                             !.running[t].responses = @ + 1],
                                 after, folders)
              IN  /\ mem' = [mem EXCEPT ![poorTree] = after]
                  /\ queue' = sch.queue
                  /\ running' = sch.running
                  /\ calls' = sch.calls
                  /\ added' = added \cup Range(folders)
                  /\ submitted' = submitted \o folders
  /\ UNCHANGED <<poorTree, snapshot, pc, idle, rejects, settled, uppyFiles, paths, prev>>

\* provider.list rejects for job t: the await of line 29 throws, and
\* recursivelyFetch rejects without reaching line 35.
Reject(t) ==
  /\ t \in DOMAIN running
  /\ running[t].st = "awaiting"
  /\ rejects < MaxRejects
  /\ running' = [running EXCEPT ![t].st = "threw"]
  /\ rejects' = rejects + 1
  /\ UNCHANGED <<mem, poorTree, snapshot, pc, queue, idle, calls, added, submitted,
                 settled, uppyFiles, paths, prev>>

\* p-queue after the job's promise settled: the promise queue.add returned
\* takes the job's outcome (nobody holds it: a rejection goes unhandled), the
\* pending count drops, the next queued job starts, and onIdle resolves when
\* nothing is left.
Settle(t) ==
  /\ t \in DOMAIN running
  /\ running[t].st \in {"returned", "threw"}
  /\ LET sch == tryToStartAnother(
                  [Sch EXCEPT !.running = [u \in DOMAIN running \ {t} |-> running[u]]],
                  mem[poorTree])
     IN  /\ queue' = sch.queue
         /\ running' = sch.running
         /\ calls' = sch.calls
         /\ idle' = (idle \/ IsIdle(sch))
  /\ settled' = [u \in DOMAIN settled \cup {t} |->
                   IF u = t THEN running[t].st ELSE settled[u]]
  /\ UNCHANGED <<mem, poorTree, snapshot, pc, rejects, added, submitted, uppyFiles,
                 paths, prev>>

\* fillPartialTree after its await: lines 91-105.  A callback of map that
\* throws makes fillPartialTree reject.
Resume ==
  /\ pc = "awaitIdle"
  /\ AwaitOnIdle
  /\ LET tree == mem[poorTree]
         files == checkedFiles(tree)
         resolved == [k \in 1..Len(files) |-> Resolve(tree, files[k])]
     IN  IF \E k \in DOMAIN resolved : resolved[k].threw
         THEN /\ pc' = "threw"
              /\ uppyFiles' = <<>>
              /\ paths' = <<>>
         ELSE /\ pc' = "returned"
              /\ uppyFiles' = [k \in DOMAIN resolved |-> UppyFile(resolved[k])]
              /\ paths' = resolved
  /\ UNCHANGED <<mem, poorTree, snapshot, queue, running, idle, calls, rejects,
                 added, submitted, settled, prev>>

\* The caller calls fillPartialTree again with the same array: the locals of
\* the ended call are gone.
Again ==
  /\ pc \in {"returned", "threw"}
  /\ prev' = [ran |-> TRUE, pc |-> pc, uppyFiles |-> uppyFiles, rejects |-> rejects]
  /\ pc' = "idle"
  /\ mem' = [mem EXCEPT !["copy"] = <<>>]
  /\ poorTree' = "copy"
  /\ queue' = <<>>
  /\ running' = <<>>
  /\ calls' = <<>>
  /\ idle' = FALSE
  /\ rejects' = 0
  /\ added' = {}
  /\ submitted' = <<>>
  /\ settled' = <<>>
  /\ uppyFiles' = <<>>
  /\ paths' = <<>>
  /\ UNCHANGED snapshot

\* ------------------------------------------------------------ input trees

docs == Id(N("docs"))

img == Id(N("img"))

\* NumWide checked folders that were never listed.
WideTree ==
  <<RootNode>> \o [i \in 1..NumWide |-> FolderNode(W(i), NULL, "checked", FALSE, NULL)]

\* docs in every status and pagination state; its first page is in the tree
\* when it was listed before.
DocsTrees ==
  { <<RootNode, FolderNode(N("docs"), NULL, s, c, n)>>
      \o (IF c THEN <<FileNode(N("a.txt"), docs, fs)>> ELSE <<>>) :
    s \in Status, c \in BOOLEAN, n \in {NULL, <<"docs", 0, 2>>},
    fs \in {"checked", "unchecked"} }

\* root -> docs -> img, both listed to the end, and five files.
ResolvedTrees ==
  { <<RootNode,
      FolderNode(N("docs"), NULL, s1, TRUE, NULL),
      FolderNode(N("img"), docs, s2, TRUE, NULL),
      FileNode(N("top.txt"), NULL, f[1]),
      FileNode(N("a.txt"), docs, f[2]),
      FileNode(N("b.txt"), docs, f[3]),
      FileNode(N("a.png"), img, f[4]),
      FileNode(N("b.png"), img, f[5])>> :
    s1 \in Status, s2 \in Status, f \in [1..5 -> Status] }

\* One poor folder (docs) beside folders the filter leaves out: checked and
\* listed to the end (old), unchecked and never listed (skip), partially
\* checked with a page pending (part).
MixedTree ==
  <<RootNode,
    FolderNode(N("old"), NULL, "checked", TRUE, NULL),
    FolderNode(N("skip"), NULL, "unchecked", FALSE, NULL),
    FolderNode(N("docs"), NULL, "checked", FALSE, NULL),
    FolderNode(N("part"), NULL, "partial", TRUE, <<"part", 0, 2>>),
    FileNode(N("old.txt"), Id(N("old")), "checked")>>

\* The trees of the code's types: the root is a node of the array.
InputTrees == {WideTree, MixedTree} \cup DocsTrees \cup ResolvedTrees

\* Trees whose root is not a node of the array: a parentId of null then
\* resolves to no node.
RootlessTrees == {Tail(t) : t \in DocsTrees \cup ResolvedTrees}

InitWith(trees) ==
  /\ mem \in {[arg |-> t, copy |-> <<>>] : t \in trees}
  /\ poorTree = "copy"
  /\ snapshot = mem[partialTree]
  /\ pc = "idle"
  /\ queue = <<>>
  /\ running = <<>>
  /\ idle = FALSE
  /\ calls = <<>>
  /\ rejects = 0
  /\ added = {}
  /\ submitted = <<>>
  /\ settled = <<>>
  /\ uppyFiles = <<>>
  /\ paths = <<>>
  /\ prev = NoPrev

Init == InitWith(InputTrees)

InitAnyRoot == InitWith(DocsTrees \cup ResolvedTrees \cup RootlessTrees)

Next ==
  \/ Call
  \/ \E t \in DOMAIN running : Respond(t)
  \/ \E t \in DOMAIN running : Reject(t)
  \/ \E t \in DOMAIN running : Settle(t)
  \/ Resume
  \/ Again

Spec == Init /\ [][Next]_vars

SpecAnyRoot == InitAnyRoot /\ [][Next]_vars

\* A provider whose every call resolves, and the fairness of the event loop
\* and of p-queue: a resolved provider.list is delivered, a settled job is
\* taken off the pending count, a resolved onIdle resumes the driver.
InitLive == InitWith({WideTree, MixedTree} \cup DocsTrees)

NextLive ==
  \/ Call
  \/ \E t \in DOMAIN running : Respond(t)
  \/ \E t \in DOMAIN running : Settle(t)
  \/ Resume
  \/ Again

SpecLive ==
  /\ InitLive
  /\ [][NextLive]_vars
  /\ WF_vars(\E t \in DOMAIN running : Respond(t))
  /\ WF_vars(\E t \in DOMAIN running : Settle(t))
  /\ WF_vars(Resume)

\* ----------------------------------------------------------------- claims

Done == pc \in {"returned", "threw"}

IsCheckedFolder(n) == n.type = "folder" /\ n.status = "checked"

\* The nodes the run added to the working tree.
Discovered == {i \in DOMAIN mem[poorTree] : i > Len(snapshot)}

\* C1: the driver reads the working tree only when no crawl job is queued
\* or in flight, and every folder discovered during the run has been
\* submitted and its job has ended by then.
C1_ReadOnlyWhenIdle ==
  Done =>
    /\ queue = <<>>
    /\ DOMAIN running = {}
    /\ \A i \in Discovered :
         mem[poorTree][i].type = "folder" => i \in added /\ i \in DOMAIN settled

\* A run returned in which a discovered folder (img, found by the crawl of
\* docs) discovered a folder of its own (thumbs), and both were crawled.
C1_Witness ==
  /\ pc = "returned"
  /\ \E i \in Discovered, j \in Discovered :
       /\ mem[poorTree][i].type = "folder"
       /\ mem[poorTree][j].type = "folder"
       /\ mem[poorTree][j].parentId = mem[poorTree][i].id
       /\ {i, j} \subseteq DOMAIN settled
       /\ settled[i] = "returned" /\ settled[j] = "returned"

\* C2: when a provider.list call of the run rejected, fillPartialTree
\* rejects and returns no list.
C2_RejectsWhenListRejected ==
  (Done /\ rejects > 0) => pc = "threw"

\* The absPath has no checked folder.
NoCheckedFolder(absPath) ==
  \A i \in 1..Len(absPath) : ~IsCheckedFolder(absPath[i])

\* C3: for a file with no checked folder on its absolute path, the relative
\* path is the whole absolute path.
C3_RelPathWholeWhenNoneChecked ==
  \A k \in DOMAIN paths :
    NoCheckedFolder(paths[k].absPath) => paths[k].relPath = paths[k].absPath

\* C4: for a file with a checked folder on its absolute path, the relative
\* path is the suffix of the absolute path from the first checked folder.
C4_RelPathFromFirstChecked ==
  \A k \in DOMAIN paths :
    LET abs == paths[k].absPath
        rel == paths[k].relPath
    IN  ~NoCheckedFolder(abs) =>
          \E j \in 1..Len(abs) :
            /\ IsCheckedFolder(abs[j])
            /\ \A i \in 1..(j - 1) : ~IsCheckedFolder(abs[i])
            /\ Len(rel) = Len(abs) - j + 1
            /\ \A i \in 1..Len(rel) : rel[i] = abs[j + i - 1]

\* The example with docs and img checked: the relative path of a.png starts
\* at docs, the first checked folder, and not at img, the nearest one.
C4_Witness ==
  \E k \in DOMAIN paths :
    /\ Len(paths[k].absPath) = 3
    /\ IsCheckedFolder(paths[k].absPath[1])
    /\ IsCheckedFolder(paths[k].absPath[2])
    /\ paths[k].relPath = paths[k].absPath

HasRoot(tree) == \E i \in DOMAIN tree : tree[i].type = "root"

\* Every parentId is the id of a folder node or of a root node of the tree.
ResolvesToStored(tree) ==
  \A i \in DOMAIN tree :
    tree[i].type # "root" =>
      \E j \in DOMAIN tree :
        tree[j].id = tree[i].parentId /\ tree[j].type \in {"folder", "root"}

\* Every parentId is the id of a folder node, or null: the root as a sentinel
\* that is not a node of the tree.
ResolvesToSentinel(tree) ==
  /\ ~HasRoot(tree)
  /\ \A i \in DOMAIN tree :
       \/ tree[i].parentId = NULL
       \/ \E j \in DOMAIN tree :
            tree[j].id = tree[i].parentId /\ tree[j].type = "folder"

\* path is the chain of parentId links from the root's child down to file.
IsChain(tree, path, file) ==
  /\ Len(path) >= 1
  /\ path[Len(path)] = file
  /\ path[1].parentId = NULL
  /\ \A i \in 1..(Len(path) - 1) :
       /\ path[i].type = "folder"
       /\ path[i] \in Range(tree)
       /\ path[i].id = path[i + 1].parentId

NumCheckedFiles(tree) ==
  Cardinality({i \in DOMAIN tree : tree[i].type = "file" /\ tree[i].status = "checked"})

\* C5 as stated: with the root a sentinel that is not stored, getAbsPath
\* returns for every file the chain from the root's child to the file.
C5_AbsPathWithSentinelRoot ==
  (Done /\ ResolvesToSentinel(mem[poorTree])) =>
    /\ pc = "returned"
    /\ Len(paths) = NumCheckedFiles(mem[poorTree])
    /\ \A k \in DOMAIN paths : IsChain(mem[poorTree], paths[k].absPath, paths[k].file)

\* C5, amended: when every parentId resolves to a folder node or to the root
\* node, which is a node of the tree, getAbsPath returns for every file the
\* chain from the root's child to the file, root excluded, file included.
C5_AbsPathWithStoredRoot ==
  (Done /\ ResolvesToStored(mem[poorTree])) =>
    /\ pc = "returned"
    /\ Len(paths) = NumCheckedFiles(mem[poorTree])
    /\ \A k \in DOMAIN paths : IsChain(mem[poorTree], paths[k].absPath, paths[k].file)

\* root -> docs -> img -> a.png resolved to [docs, img, a.png].
C5_Witness ==
  /\ pc = "returned"
  /\ HasRoot(mem[poorTree])
  /\ \E k \in DOMAIN paths :
       /\ Len(paths[k].absPath) = 3
       /\ paths[k].absPath[1].id = docs
       /\ paths[k].absPath[2].id = img
       /\ paths[k].absPath[3] = paths[k].file

\* C6: the caller's tree keeps the value it had when fillPartialTree was
\* called, whatever the crawl does.
C6_InputUnchanged == mem[partialTree] = snapshot

\* A run ended whose crawl marked a folder cached and pushed nodes, all of it
\* in the working copy.
C6_Witness ==
  /\ Done
  /\ Discovered # {}
  /\ \E i \in DOMAIN snapshot :
       /\ snapshot[i].type = "folder"
       /\ snapshot[i].cached = FALSE
       /\ mem[poorTree][i].cached = TRUE

\* C7: a returned list has exactly one record per checked file node of the
\* final working tree and no other record.
C7_OneRecordPerCheckedFile ==
  pc = "returned" =>
    LET tree == mem[poorTree]
        checked == {i \in DOMAIN tree :
                      tree[i].type = "file" /\ tree[i].status = "checked"}
    IN  /\ Len(uppyFiles) = Cardinality(checked)
        /\ \A i \in checked :
             Cardinality({k \in DOMAIN uppyFiles :
                            uppyFiles[k].requestPath = tree[i].data.requestPath}) = 1
        /\ \A k \in DOMAIN uppyFiles :
             \E i \in checked : uppyFiles[k].requestPath = tree[i].data.requestPath

\* Five files, two of them unchecked, no poor folder: three records.
C7_Witness ==
  /\ pc = "returned"
  /\ calls = <<>>
  /\ LET tree == mem[poorTree]
     IN  /\ Cardinality({i \in DOMAIN tree : tree[i].type = "file"}) = 5
         /\ Cardinality({i \in DOMAIN tree :
                           tree[i].type = "file" /\ tree[i].status = "unchecked"}) = 2
         /\ Cardinality({i \in DOMAIN tree :
                           tree[i].type = "file" /\ tree[i].status = "checked"}) = 3
  /\ Len(uppyFiles) = 3

\* The job of folder t returned (it did not throw).
Returned(t) ==
  \/ t \in DOMAIN running /\ running[t].st = "returned"
  \/ t \in DOMAIN settled /\ settled[t] = "returned"

\* The pages of a listing from cursor c to its end.
PagesFrom(c) == NumPages(<<c[1], c[2]>>) - c[3] + 1

\* C8: a crawl has at most one provider.list call outstanding, each call
\* after the first uses the cursor the previous page reported, and a crawl
\* that returns has called every page up to the one without a cursor and
\* left its folder cached with no nextPagePath.
C8_SequentialPagination ==
  \A t \in DOMAIN calls :
    /\ \A k \in 1..(Len(calls[t]) - 1) :
         /\ Truthy(list(calls[t][k]).nextPagePath)
         /\ calls[t][k + 1] = list(calls[t][k]).nextPagePath
    /\ t \in DOMAIN running =>
         Len(calls[t]) - running[t].responses
           = (IF running[t].st = "returned" THEN 0 ELSE 1)
    /\ Returned(t) =>
         /\ list(calls[t][Len(calls[t])]).nextPagePath = NULL
         /\ Len(calls[t]) = PagesFrom(calls[t][1])
         /\ mem[poorTree][t].cached = TRUE
         /\ mem[poorTree][t].nextPagePath = NULL

\* A crawl over a listing of three pages or more returned.
C8_Witness ==
  \E t \in DOMAIN calls :
    /\ Returned(t)
    /\ Len(calls[t]) >= 3
    /\ calls[t][1] = mem[poorTree][t].id
    /\ mem[poorTree][t].cached = TRUE
    /\ mem[poorTree][t].nextPagePath = NULL

\* Every checked folder of the tree is cached and has no nextPagePath.
NoPoorFolder(tree) ==
  \A i \in DOMAIN tree :
    IsCheckedFolder(tree[i]) => tree[i].cached = TRUE /\ tree[i].nextPagePath = NULL

\* C9: on a tree without a poor folder a call makes no provider.list call,
\* is idle from the start and returns; a second call returns the same files;
\* without a checked file the list is empty.
C9_NoPoorFolder ==
  NoPoorFolder(snapshot) =>
    /\ calls = <<>>
    /\ added = {}
    /\ pc = "awaitIdle" => idle
    /\ Done =>
         /\ pc = "returned"
         /\ prev.ran => prev.pc = "returned" /\ prev.uppyFiles = uppyFiles
         /\ NumCheckedFiles(snapshot) = 0 => uppyFiles = <<>>
         /\ Len(uppyFiles) = NumCheckedFiles(snapshot)

\* The second call on a tree without a poor folder returned a non-empty list.
C9_Witness ==
  /\ NoPoorFolder(snapshot)
  /\ \E i \in DOMAIN snapshot : IsCheckedFolder(snapshot[i])
  /\ pc = "returned"
  /\ prev.ran
  /\ uppyFiles # <<>>

\* C10: at most 6 crawl jobs are in flight; a job that was added is queued,
\* in flight or ended (none is dropped), and when the driver goes on every
\* added job has been started and has ended.
C10_ConcurrencyLimit ==
  /\ Cardinality(DOMAIN running) <= 6
  /\ \A i, j \in DOMAIN queue : i # j => queue[i] # queue[j]
  /\ Range(queue) \cap DOMAIN running = {}
  /\ Range(queue) \cap DOMAIN settled = {}
  /\ DOMAIN running \cap DOMAIN settled = {}
  /\ added = Range(queue) \cup DOMAIN running \cup DOMAIN settled
  /\ Done => added = DOMAIN settled

\* 6 jobs in flight and one more queued.
C10_Witness ==
  /\ Cardinality(DOMAIN running) = 6
  /\ queue # <<>>
  /\ \A t \in DOMAIN running : running[t].st = "awaiting"

\* The jobs that have not come to their end: they may still write.
Awaiting == {t \in DOMAIN running : running[t].st = "awaiting"}

\* Jobs in flight together crawl folders of different identities.
DistinctIdentities ==
  \A t, u \in DOMAIN running : t # u => mem[poorTree][t].id # mem[poorTree][u].id

\* Within a run, a step that changes a node of the working tree or pushes
\* nodes is the commit of one job: the changed node is the job's own folder
\* and the pushed nodes have the identity of that folder as parentId.
WritesOwnFolder ==
  (pc = "awaitIdle" /\ pc' = "awaitIdle") =>
    LET old == mem[poorTree]
        new == mem'[poorTree]
    IN  \A i \in DOMAIN new :
          (i > Len(old) \/ new[i] # old[i]) =>
            \E t \in Awaiting :
              /\ running'[t].st = "returned"
              /\ \A u \in Awaiting \ {t} : running'[u] = running[u]
              /\ i <= Len(old) => i = t
              /\ i > Len(old) => new[i].parentId = old[t].id

\* C11: jobs in flight at the same time write to different nodes and push
\* children under different parent identities.
C11_DisjointWrites == []DistinctIdentities /\ [][WritesOwnFolder]_vars

\* img and raw, both discovered by the crawl of docs, are crawled at the
\* same time.
C11_Witness ==
  \E t \in Awaiting, u \in Awaiting :
    /\ t # u
    /\ t \in Discovered /\ u \in Discovered
    /\ mem[poorTree][t].parentId = mem[poorTree][u].parentId

\* The folder is listed to the end.
Drained(n) == n.type = "folder" /\ n.cached = TRUE /\ n.nextPagePath = NULL

\* C12: a folder is passed to queue.add at most once in a run, and a folder
\* whose job returned (it is cached, without nextPagePath) is not queued,
\* not crawled and not listed again.
C12_SubmittedOnce ==
  /\ \A i, j \in DOMAIN submitted : i # j => submitted[i] # submitted[j]
  /\ Range(submitted) = added
  /\ \A t \in DOMAIN settled :
       /\ t \notin Range(queue)
       /\ t \notin DOMAIN running
       /\ settled[t] = "returned" =>
            /\ Drained(mem[poorTree][t])
            /\ Len(calls[t]) = PagesFrom(calls[t][1])
  /\ \A t \in DOMAIN running :
       running[t].st = "returned" =>
         /\ Drained(mem[poorTree][t])
         /\ t \notin Range(queue)
         /\ Len(calls[t]) = PagesFrom(calls[t][1])

\* docs, img and thumbs were each crawled to the end, one after the other's
\* discovery, and the run went on to its end.
C12_Witness ==
  /\ Done
  /\ Len(submitted) >= 4
  /\ \A t \in Range(submitted) : t \in DOMAIN settled /\ settled[t] = "returned"

\* The poor predicate of the data model.
Poor(n) ==
  /\ n.type = "folder"
  /\ n.status = "checked"
  /\ (n.cached = FALSE \/ n.nextPagePath # NULL)

\* C13: the jobs seeded by a call are exactly the poor folders of the tree,
\* every folder added later is poor when it is added (and stays so until
\* its own job returns), and only added folders are listed.
C13_OnlyPoorFolders ==
  pc # "idle" =>
    /\ \A i \in DOMAIN snapshot : i \in added <=> Poor(snapshot[i])
    /\ \A i \in added :
         /\ i \in DOMAIN mem[poorTree]
         /\ mem[poorTree][i].type = "folder"
         /\ mem[poorTree][i].status = "checked"
         /\ Returned(i) \/ Poor(mem[poorTree][i])
    /\ DOMAIN calls \subseteq added
    /\ DOMAIN running \subseteq added

\* A run on the mixed tree ended: docs and what it led to were crawled, the
\* cached folder, the unchecked one and the partially checked one were not.
C13_Witness ==
  /\ Done
  /\ snapshot = MixedTree
  /\ \E i \in DOMAIN snapshot : snapshot[i].id = docs /\ i \in DOMAIN calls
  /\ \E i \in Discovered : i \in DOMAIN calls
  /\ \A i \in DOMAIN snapshot :
       snapshot[i].id \in {Id(N("old")), Id(N("skip")), Id(N("part"))} =>
         i \notin DOMAIN calls

\* The run returned and no provider.list call of it was rejected.
Succeeded == pc = "returned" /\ rejects = 0

\* C14: two calls on the same tree with the same remote hierarchy, in both
\* of which every provider.list call resolved, return the same set of
\* files, whatever the order in which the jobs and the responses came.
C14_SameFilesForEverySchedule ==
  (Succeeded /\ prev.ran /\ prev.pc = "returned" /\ prev.rejects = 0) =>
    Range(uppyFiles) = Range(prev.uppyFiles)

\* Two runs whose jobs committed in different orders: the same files, in
\* another order.
C14_Witness ==
  /\ Succeeded
  /\ prev.ran /\ prev.pc = "returned" /\ prev.rejects = 0
  /\ Len(uppyFiles) >= 4
  /\ uppyFiles # prev.uppyFiles
  /\ Range(uppyFiles) = Range(prev.uppyFiles)

\* Every job added in the run has ended by returning, and nothing is queued
\* or in flight.
AllFinished ==
  /\ queue = <<>>
  /\ DOMAIN running = {}
  /\ DOMAIN settled = added
  /\ \A t \in added : settled[t] = "returned"

\* C15: with a provider whose calls all resolve, and the event loop running
\* every continuation that is ready, a call that has added its jobs leads to
\* a state where every added job was started and has returned, the queue is
\* idle, and fillPartialTree has returned.
C15_Terminates ==
  (pc = "awaitIdle") ~> (pc = "returned" /\ idle /\ AllFinished)

\* A run returned that had more jobs than run at once, so one of them waited
\* in the queue for another to end.
C15_Witness ==
  /\ pc = "returned"
  /\ AllFinished
  /\ Cardinality(added) > 6

\* The first provider.list call of the job of an input folder, by the
\* folder's fields in the caller's tree.
FirstCall(n) == IF n.cached = TRUE THEN n.nextPagePath ELSE n.id

\* C16: the job of a cached folder calls provider.list with the stored
\* nextPagePath first and never with the folder's id; the job of a folder
\* that is not cached calls it with the folder's id first; a job that
\* returned made exactly the calls from its first cursor to the last page.
C16_StartCursor ==
  \A t \in DOMAIN calls :
    /\ calls[t] # <<>>
    /\ t \in DOMAIN snapshot =>
         /\ calls[t][1] = FirstCall(snapshot[t])
         /\ snapshot[t].cached = TRUE =>
              \A k \in DOMAIN calls[t] : calls[t][k] # snapshot[t].id
    /\ t \in Discovered => calls[t][1] = mem[poorTree][t].id
    /\ Returned(t) =>
         /\ Len(calls[t]) = PagesFrom(calls[t][1])
         /\ \A k \in DOMAIN calls[t] :
              calls[t][k] = <<calls[t][1][1], calls[t][1][2], calls[t][1][3] + k - 1>>

\* docs was cached with its second page pending: its job called list with
\* the second page and every page after it up to the last, and returned.
C16_Witness ==
  \E t \in DOMAIN calls :
    /\ t \in DOMAIN snapshot
    /\ snapshot[t].cached = TRUE
    /\ snapshot[t].nextPagePath = <<"docs", 0, 2>>
    /\ Returned(t)
    /\ Len(calls[t]) = MaxPages - 1
    /\ calls[t][1] = <<"docs", 0, 2>>
    /\ calls[t][Len(calls[t])] = <<"docs", 0, MaxPages>>

\* The nodes the run added under the folder at position t.
AddedBy(t) == {i \in Discovered : mem[poorTree][i].parentId = mem[poorTree][t].id}

\* The items of the pages the job of t received.
Fetched(t) ==
  UNION {Range(list(calls[t][k]).items) : k \in DOMAIN calls[t]}

\* C17: a node added by the crawl of F is checked and has F's id as parent;
\* an added folder node is not cached and has no nextPagePath, until its own
\* crawl, started at its id as for a folder never listed, has committed, and
\* it is added to the queue; a crawl
\* that returned added one node per item of its pages, a folder node for an
\* item with isFolder true and a file node otherwise.
C17_AddedNodes ==
  LET tree == mem[poorTree]
  IN  /\ \A i \in Discovered :
           /\ tree[i].status = "checked"
           /\ \E t \in DOMAIN calls : Returned(t) /\ i \in AddedBy(t)
           /\ tree[i].type \in {"folder", "file"}
           /\ tree[i].type = "folder" =>
                /\ i \in added
                /\ \/ tree[i].cached = FALSE /\ tree[i].nextPagePath = NULL
                   \/ /\ Returned(i)
                      /\ calls[i] # <<>>
                      /\ calls[i][1] = tree[i].id
      /\ \A t \in DOMAIN calls :
           IF Returned(t)
           THEN /\ \A it \in Fetched(t) :
                     Cardinality({i \in AddedBy(t) :
                                    /\ tree[i].id = it.requestPath
                                    /\ tree[i].data = it
                                    /\ tree[i].type = IF it.isFolder = TRUE
                                                      THEN "folder" ELSE "file"}) = 1
                /\ Cardinality(AddedBy(t)) = Cardinality(Fetched(t))
           ELSE AddedBy(t) = {}

\* The crawl of docs returned: its three pages gave five items, two of them
\* folders, and five nodes were added under docs.
C17_Witness ==
  \E t \in DOMAIN calls :
    /\ Returned(t)
    /\ mem[poorTree][t].id = docs
    /\ Len(calls[t]) = MaxPages
    /\ Cardinality(AddedBy(t)) = 5
    /\ \E i \in AddedBy(t) : mem[poorTree][i].type = "folder" /\ i \in added

\* C18: when a call in which every provider.list call resolved returns, no
\* checked folder of the working tree, given or discovered, is left without
\* cached = true or with a nextPagePath.
C18_FixedPoint ==
  Succeeded =>
    \A i \in DOMAIN mem[poorTree] :
      LET n == mem[poorTree][i]
      IN  (n.type = "folder" /\ n.status = "checked") =>
            (n.cached = TRUE /\ n.nextPagePath = NULL)

\* A call returned whose tree had a poor folder and whose crawl discovered
\* folders two levels down (img, then thumbs).
C18_Witness ==
  /\ Succeeded
  /\ \E i \in DOMAIN snapshot : Poor(snapshot[i])
  /\ \E i, j \in Discovered :
       /\ mem[poorTree][i].type = "folder"
       /\ mem[poorTree][j].type = "folder"
       /\ mem[poorTree][j].parentId = mem[poorTree][i].id

\* The positions of the folder or root nodes whose id is the parentId of the
\* node at position i.
ParentsOf(tree, i) ==
  {j \in DOMAIN tree : /\ tree[j].type \in {"folder", "root"}
                       /\ tree[j].id = tree[i].parentId}

\* The job of the folder at position t was added to the queue and may have
\* started.
Submitted(t) == t \in Range(queue) \/ t \in DOMAIN running \/ t \in DOMAIN settled

\* C19: in every state of a run every node but the root has a parentId that
\* is the id of exactly one folder or root node of the working tree, another
\* node than itself; the job of a discovered folder is added only when its
\* parent's crawl has committed (the parent is cached, without nextPagePath,
\* and its job returned).
C19_ParentsResolve ==
  pc # "idle" =>
    LET tree == mem[poorTree]
    IN  \A i \in DOMAIN tree :
          tree[i].type # "root" =>
            /\ Cardinality(ParentsOf(tree, i)) = 1
            /\ i \notin ParentsOf(tree, i)
            /\ (i \in Discovered /\ tree[i].type = "folder" /\ Submitted(i)) =>
                 \A j \in ParentsOf(tree, i) :
                   /\ Returned(j)
                   /\ tree[j].cached = TRUE
                   /\ tree[j].nextPagePath = NULL

\* The job of a discovered folder (img) is awaiting its listing while its
\* parent's job has returned.
C19_Witness ==
  /\ pc = "awaitIdle"
  /\ \E i \in Discovered :
       /\ i \in DOMAIN running
       /\ running[i].st = "awaiting"
       /\ mem[poorTree][i].parentId = docs

\* The jobs that have not committed: waiting for a page, or ended by a
\* rejected provider.list call.
Uncommitted ==
  {t \in DOMAIN running : running[t].st \in {"awaiting", "threw"}}
    \cup {t \in DOMAIN settled : settled[t] = "threw"}

\* C20: as long as the job of a folder has not received its last page, and
\* for good when one of its provider.list calls was rejected, the folder's
\* node is as it was before the job started, no node of the tree has the
\* folder as parent that the run added, and none of the items fetched for
\* it is in the tree or in the queue.
C20_CommitInOneStep ==
  \A t \in Uncommitted :
    LET tree == mem[poorTree]
    IN  /\ IF t \in DOMAIN snapshot
           THEN tree[t] = snapshot[t]
           ELSE tree[t].cached = FALSE /\ tree[t].nextPagePath = NULL
        /\ \A i \in Discovered :
             /\ tree[i].parentId # tree[t].id
             /\ t \in DOMAIN running =>
                  \A k \in DOMAIN running[t].items :
                    tree[i].id # running[t].items[k].requestPath

\* The job of docs received a page with items and its next provider.list
\* call was rejected.
C20_Witness ==
  \E t \in DOMAIN running :
    /\ running[t].st = "threw"
    /\ running[t].responses >= 1
    /\ running[t].items # <<>>
    /\ \E k \in DOMAIN running[t].items : running[t].items[k].isFolder = TRUE

====
